---- MODULE Spec2Model ----
(***************************************************************************)
(* Doghouse slot engine (src/techCode_LB6/dogHouse.py): DoghouseEngine,    *)
(* its spin transaction, grid generation with sticky wilds, payline and    *)
(* scatter evaluation.                                                     *)
(***************************************************************************)
EXTENDS Integers, Sequences, FiniteSets, TLC

(* ---------------- board constants ---------------- *)
REELS == 5
ROWS == 3
LINES == 10

DOG1 == "D1"
DOG2 == "D2"
DOG3 == "D3"
DOG4 == "D4"
COLLAR == "CL"
BOWL == "BW"
BONE == "BN"
PAW == "S"
HOUSE == "W"

REGULAR_SYMBOLS == <<DOG1, DOG2, DOG3, DOG4, COLLAR, BOWL, BONE>>
ALL_SYMBOLS == REGULAR_SYMBOLS \o <<PAW, HOUSE>>

SymbolSet == {ALL_SYMBOLS[i] : i \in 1..Len(ALL_SYMBOLS)}
RegularSet == {REGULAR_SYMBOLS[i] : i \in 1..Len(REGULAR_SYMBOLS)}

PAYTABLE ==
  [b \in RegularSet |->
    CASE b = DOG1   -> (3 :> 8 @@ 4 :> 30 @@ 5 :> 100)
      [] b = DOG2   -> (3 :> 6 @@ 4 :> 24 @@ 5 :> 80)
      [] b = DOG3   -> (3 :> 5 @@ 4 :> 18 @@ 5 :> 60)
      [] b = DOG4   -> (3 :> 4 @@ 4 :> 12 @@ 5 :> 40)
      [] b = COLLAR -> (3 :> 3 @@ 4 :> 8 @@ 5 :> 20)
      [] b = BOWL   -> (3 :> 2 @@ 4 :> 6 @@ 5 :> 15)
      [] b = BONE   -> (3 :> 2 @@ 4 :> 5 @@ 5 :> 12)]

SCATTER_PAYS == (3 :> 2 @@ 4 :> 10 @@ 5 :> 50)

SCATTER_FREE_SPINS == (3 :> 8 @@ 4 :> 12 @@ 5 :> 15)

(* SYMBOL_WEIGHTS in the order of its keys: <<symbol, weight>> *)
SYMBOL_WEIGHTS ==
  << <<DOG1, 3>>, <<DOG2, 4>>, <<DOG3, 5>>, <<DOG4, 6>>, <<COLLAR, 8>>,
     <<BOWL, 9>>, <<BONE, 9>>, <<PAW, 2>>, <<HOUSE, 2>> >>

PAYLINES ==
  << <<1, 1, 1, 1, 1>>,
     <<0, 0, 0, 0, 0>>,
     <<2, 2, 2, 2, 2>>,
     <<0, 1, 2, 1, 0>>,
     <<2, 1, 0, 1, 2>>,
     <<0, 0, 1, 0, 0>>,
     <<2, 2, 1, 2, 2>>,
     <<1, 0, 0, 0, 1>>,
     <<1, 2, 2, 2, 1>>,
     <<0, 1, 2, 2, 2>> >>

(* cell coordinates (reel, row) as in the code, 0-based; a grid is a tuple of  *)
(* REELS columns of ROWS symbols, so the code's grid[r][c] is grid[r + 1][c + 1] *)
Cells == (0..(REELS - 1)) \X (0..(ROWS - 1))
At(grid, cell) == grid[cell[1] + 1][cell[2] + 1]

(* Optional[...] values: None is the empty tuple, a present value x is <<x>> *)
None == <<>>

(* ---------------- state ---------------- *)
VARIABLES
  balance,          \* self.balance
  bet_per_line,     \* self.bet_per_line
  free_spins_left,  \* self.free_spins_left
  sticky_wilds,     \* self.sticky_wilds, a set of <<reel, row>>
  last_result,      \* self.last_result: None or <<SpinResult>>
  op,               \* the engine method called last
  ret,              \* how that call ended
  base_game,        \* local base_game of the last completed spin()
  new_frees,        \* local new_frees of the last completed spin()
  forced,           \* cells the last completed spin() took from sticky_wilds, not drawn
  arg,              \* the arguments of the call op
  weights,          \* self._symbols and self._weights: a tuple of <<symbol, weight>>
  rng,              \* values the module-level generator of random has produced
  own,              \* values this engine has drawn through weighted_choice
  spinning,         \* run_gui's spinning flag
  returned,         \* what the last completed spin() returned: None or <<SpinResult>>
  awarded,          \* free spins awarded since, and by, the last debited spin()
  free_done         \* completed spins since the last debited spin()

engine == <<balance, bet_per_line, free_spins_left, sticky_wilds, last_result>>
vars == <<balance, bet_per_line, free_spins_left, sticky_wilds, last_result,
          op, ret, base_game, new_frees, forced, arg, weights, rng, own, spinning,
          returned, awarded, free_done>>
locals == <<base_game, new_frees, forced, returned, awarded, free_done>>
process == <<rng, own, spinning>>

(* ---------------- helpers ---------------- *)
RECURSIVE Pow2(_)
Pow2(n) == IF n = 0 THEN 1 ELSE 2 * Pow2(n - 1)

Min2(a, b) == IF a < b THEN a ELSE b
Max2(a, b) == IF a > b THEN a ELSE b

SetMax(S) == CHOOSE m \in S : \A x \in S : x <= m

RECURSIVE SortedDesc(_)
SortedDesc(S) == IF S = {} THEN <<>> ELSE <<SetMax(S)>> \o SortedDesc(S \ {SetMax(S)})

(* total_bet property *)
TotalBetOf(bet) == bet * LINES
total_bet == TotalBetOf(bet_per_line)

(* the new bet without the lower limit *)
NewBet_no_floor(bet, delta) == Min2(100, bet + delta)

(* new_bet of change_bet *)
NewBet(bet, delta) == Max2(1, Min2(100, bet + delta))

(* can_spin() with the free-spin test off by one *)
can_spin_always == free_spins_left >= 0 \/ balance >= total_bet

(* can_spin() that asks for a positive balance, not for the bet *)
can_spin_any_balance == free_spins_left > 0 \/ balance > 0

(* can_spin() without the free-spin test *)
can_spin_funds_only == balance >= total_bet

(* can_spin() *)
can_spin == free_spins_left > 0 \/ balance >= total_bet

(* _free_spins_from_scatters: first threshold, largest first, that is met *)
RECURSIVE FreeSpinsScan(_, _, _)
FreeSpinsScan(keys, i, sc_count) ==
  IF i > Len(keys) THEN 0
  ELSE IF sc_count >= keys[i] THEN SCATTER_FREE_SPINS[keys[i]]
  ELSE FreeSpinsScan(keys, i + 1, sc_count)

(* the thresholds scanned smallest first *)
_free_spins_from_scatters_ascending(sc_count) ==
  FreeSpinsScan(<<3, 4, 5>>, 1, sc_count)

_free_spins_from_scatters(sc_count) ==
  FreeSpinsScan(SortedDesc(DOMAIN SCATTER_FREE_SPINS), 1, sc_count)

(* _match_length_left: <<length, wilds>> of the left-aligned run *)
RECURSIVE MatchScan(_, _, _, _, _)
MatchScan(symbols, base, i, length, wilds) ==
  IF i > Len(symbols) THEN <<length, wilds>>
  ELSE IF symbols[i] = base \/ symbols[i] = HOUSE
       THEN MatchScan(symbols, base, i + 1, length + 1,
                      IF symbols[i] = HOUSE THEN wilds + 1 ELSE wilds)
       ELSE <<length, wilds>>

(* the Wilds counted over the whole line instead of inside the run *)
_match_length_left_all_wilds(symbols, base) ==
  <<MatchScan(symbols, base, 1, 0, 0)[1],
    Cardinality({i \in 1..Len(symbols) : symbols[i] = HOUSE})>>

(* Wild taken as an ordinary symbol that ends the run *)
_match_length_left_no_substitution(symbols, base) ==
  MatchScan([i \in 1..Len(symbols) |-> IF symbols[i] = HOUSE THEN "?" ELSE symbols[i]],
            base, 1, 0, 0)

(* the scan started at the second reel *)
_match_length_left_skips_first(symbols, base) == MatchScan(symbols, base, 2, 1, 0)

(* a Scatter continues the run like the base symbol *)
_match_length_left_through_scatter(symbols, base) ==
  MatchScan([i \in 1..REELS |-> IF symbols[i] = PAW THEN base ELSE symbols[i]],
            base, 1, 0, 0)

(* a run that must start on the base symbol itself *)
_match_length_left_first_must_match(symbols, base) ==
  IF symbols[1] # base THEN <<0, 0>> ELSE MatchScan(symbols, base, 1, 0, 0)

_match_length_left(symbols, base) == MatchScan(symbols, base, 1, 0, 0)

(* symbols on payline li (0-based), left to right *)
LineSymbols(grid, li) ==
  LET line == PAYLINES[li + 1]
  IN <<grid[1][line[1] + 1], grid[2][line[2] + 1], grid[3][line[3] + 1],
       grid[4][line[4] + 1], grid[5][line[5] + 1]>>

(* the candidate loop over REGULAR_SYMBOLS; best = <<best_payout, best_tuple>> *)
RECURSIVE CandidateScan(_, _, _, _, _)
CandidateScan(li, symbols, bet, i, best) ==
  IF i > Len(REGULAR_SYMBOLS) THEN best
  ELSE LET base == REGULAR_SYMBOLS[i]
           m == _match_length_left(symbols, base)
           length == m[1]
           wild_count == m[2]
       IN IF length >= 3 /\ base \in DOMAIN PAYTABLE /\ length \in DOMAIN PAYTABLE[base]
          THEN LET mult == PAYTABLE[base][length]
                   payout == mult * bet * Pow2(wild_count)
               IN IF payout > best[1]
                  THEN CandidateScan(li, symbols, bet, i + 1,
                         <<payout, <<li, base, length, mult * Pow2(wild_count), payout>>>>)
                  ELSE CandidateScan(li, symbols, bet, i + 1, best)
          ELSE CandidateScan(li, symbols, bet, i + 1, best)

(* among candidates of equal payout the last of REGULAR_SYMBOLS is kept *)
EvaluateLine_last_tie(li, symbols, bet) ==
  IF \A i \in 1..REELS : symbols[i] = HOUSE
  THEN LET payout == PAYTABLE[DOG1][5] * bet * Pow2(REELS)
       IN <<payout, <<li, DOG1, REELS, PAYTABLE[DOG1][5] * Pow2(REELS), payout>>>>
  ELSE LET Run(i) == _match_length_left(symbols, REGULAR_SYMBOLS[i])
           Pay(i) == IF Run(i)[1] >= 3
                     THEN PAYTABLE[REGULAR_SYMBOLS[i]][Run(i)[1]] * bet * Pow2(Run(i)[2])
                     ELSE 0
           top == SetMax({Pay(i) : i \in 1..Len(REGULAR_SYMBOLS)})
       IN IF top = 0 THEN <<0, None>>
          ELSE LET i == CHOOSE n \in 1..Len(REGULAR_SYMBOLS) :
                          Pay(n) = top /\ \A j \in (n + 1)..Len(REGULAR_SYMBOLS) : Pay(j) # top
               IN <<top, <<li, REGULAR_SYMBOLS[i], Run(i)[1],
                           PAYTABLE[REGULAR_SYMBOLS[i]][Run(i)[1]] * Pow2(Run(i)[2]), top>>>>

(* the all-Wild line entered under the Wild symbol itself *)
EvaluateLine_wild_base(li, symbols, bet) ==
  IF \A i \in 1..REELS : symbols[i] = HOUSE
  THEN LET payout == PAYTABLE[DOG1][5] * bet * Pow2(REELS)
       IN <<payout, <<li, HOUSE, REELS, PAYTABLE[DOG1][5] * Pow2(REELS), payout>>>>
  ELSE CandidateScan(li, symbols, bet, 1, <<0, None>>)

(* line wins computed from the total bet instead of the bet per line *)
EvaluateLine_total_bet(li, symbols, bet) ==
  IF \A i \in 1..REELS : symbols[i] = HOUSE
  THEN LET payout == PAYTABLE[DOG1][5] * TotalBetOf(bet) * Pow2(REELS)
       IN <<payout, <<li, DOG1, REELS, PAYTABLE[DOG1][5] * Pow2(REELS), payout>>>>
  ELSE CandidateScan(li, symbols, TotalBetOf(bet), 1, <<0, None>>)

(* body of the payline loop for one line: <<best_payout, best_tuple>> *)
EvaluateLine(li, symbols, bet) ==
  IF \A i \in 1..REELS : symbols[i] = HOUSE
  THEN LET base == DOG1
           length == REELS
           mult == IF 5 \in DOMAIN PAYTABLE[base] THEN PAYTABLE[base][5] ELSE 0
           wilds == REELS
           payout == mult * bet * Pow2(wilds)
       IN IF payout > 0
          THEN <<payout, <<li, base, length, mult * Pow2(wilds), payout>>>>
          ELSE <<0, None>>
  ELSE CandidateScan(li, symbols, bet, 1, <<0, None>>)

(* the payline loop: acc = <<line_wins, total_win>> *)
RECURSIVE LineLoop(_, _, _, _)
LineLoop(grid, bet, li, acc) ==
  IF li >= Len(PAYLINES) THEN acc
  ELSE LET best == EvaluateLine(li, LineSymbols(grid, li), bet)
       IN IF best[2] # None /\ best[1] > 0
          THEN LineLoop(grid, bet, li + 1, <<Append(acc[1], best[2]), acc[2] + best[1]>>)
          ELSE LineLoop(grid, bet, li + 1, acc)

(* flat = [grid[r][c] for r in range(REELS) for c in range(ROWS)] *)
Flat(grid) == [k \in 1..(REELS * ROWS) |-> grid[((k - 1) \div ROWS) + 1][((k - 1) % ROWS) + 1]]

RECURSIVE CountPaw(_, _)
CountPaw(flat, k) ==
  IF k > Len(flat) THEN 0
  ELSE (IF flat[k] = PAW THEN 1 ELSE 0) + CountPaw(flat, k + 1)

(* the scatter tier applied to the per-line bet *)
ScatterWin_per_line(sc_count, bet) ==
  IF sc_count >= 3
  THEN (IF sc_count \in DOMAIN SCATTER_PAYS
        THEN SCATTER_PAYS[sc_count]
        ELSE SCATTER_PAYS[SetMax(DOMAIN SCATTER_PAYS)]) * bet
  ELSE 0

ScatterWin(sc_count, bet) ==
  IF sc_count >= 3
  THEN LET multiplier == IF sc_count \in DOMAIN SCATTER_PAYS
                         THEN SCATTER_PAYS[sc_count]
                         ELSE SCATTER_PAYS[SetMax(DOMAIN SCATTER_PAYS)]
       IN multiplier * TotalBetOf(bet)
  ELSE 0

(* total_win started at 0 instead of scatter_win *)
_evaluate_grid_lines_only(grid, bet) ==
  LET sc_count == CountPaw(Flat(grid), 1)
      scatter_win == ScatterWin(sc_count, bet)
      acc == LineLoop(grid, bet, 0, <<<<>>, 0>>)
  IN [grid |-> grid, line_wins |-> acc[1], scatter_count |-> sc_count,
      scatter_win |-> scatter_win, total_win |-> acc[2]]

(* _evaluate_grid *)
_evaluate_grid(grid, bet) ==
  LET sc_count == CountPaw(Flat(grid), 1)
      scatter_win == ScatterWin(sc_count, bet)
      acc == LineLoop(grid, bet, 0, <<<<>>, scatter_win>>)
  IN [grid |-> grid, line_wins |-> acc[1], scatter_count |-> sc_count,
      scatter_win |-> scatter_win, total_win |-> acc[2]]

(* every cell drawn, sticky_wilds ignored *)
GenerateGrid_all_drawn(draw, sticky) ==
  [r \in 1..REELS |-> [c \in 1..ROWS |-> draw[r][c]]]

(* a sticky cell is drawn all the same and keeps a Scatter that comes up *)
GenerateGrid_scatter_lands(draw, sticky) ==
  [r \in 1..REELS |-> [c \in 1..ROWS |->
     IF <<r - 1, c - 1>> \in sticky /\ draw[r][c] # PAW THEN HOUSE ELSE draw[r][c]]]

(* _generate_grid_with_sticky: draw[c] is what weighted_choice returns for cell c *)
GenerateGrid(draw, sticky) ==
  [r \in 1..REELS |-> [c \in 1..ROWS |->
     IF <<r - 1, c - 1>> \in sticky THEN HOUSE ELSE draw[r][c]]]

(* the set dropped on the last free spin as well *)
StickyAfter_cleared_on_last(grid, sticky, frees) ==
  IF frees > 1 THEN sticky \cup {c \in Cells : At(grid, c) = HOUSE} ELSE {}

(* the Wild cells added in every spin, never cleared *)
StickyAfter_never_cleared(grid, sticky, frees) ==
  sticky \cup {c \in Cells : At(grid, c) = HOUSE}

(* sticky_wilds after generation: Wild cells added in a bonus, cleared otherwise *)
StickyAfter(grid, sticky, frees) ==
  IF frees > 0 THEN sticky \cup {c \in Cells : At(grid, c) = HOUSE} ELSE {}

(* the bet debited in bonus spins too *)
BalanceAfterDebit_always(bal, bg, tb) == bal - tb

(* balance after the base-game debit in spin() *)
BalanceAfterDebit(bal, bg, tb) == IF bg THEN bal - tb ELSE bal

(* the decrement done before the award *)
FreeSpinsAfter_decrement_first(frees, nf) ==
  LET dec == IF frees > 0 THEN frees - 1 ELSE frees
  IN IF nf > 0 THEN dec + nf ELSE dec

(* the triggering spin does not use up one of the spins it awards *)
FreeSpinsAfter_trigger_kept(frees, nf) ==
  IF frees = 0 THEN nf ELSE frees + nf - 1

(* free_spins_left after the award and the decrement in spin() *)
FreeSpinsAfter(frees, nf) ==
  LET added == IF nf > 0 THEN frees + nf ELSE frees
  IN IF added > 0 THEN added - 1 ELSE added

(* ---------------- bounds of the exploration ---------------- *)
MaxBalance == 40
MaxFreeSpins == 7
MaxStartBet == 2
MaxDelta == 100

StartBalances == {5, 20}
StartBets == 1..MaxStartBet
Deltas == {-MaxDelta, MaxDelta}

(* ---------------- outcomes of the random draws ---------------- *)
RowOrder == <<0, 2, 1>>
CellAt(k) == <<(k - 1) % REELS, RowOrder[(((k - 1) \div REELS) % ROWS) + 1]>>
ScatterCells(k) == {CellAt(j) : j \in 1..k}

WildSets == { {}, {<<2, 1>>}, {<<0, 1>>, <<1, 1>>, <<2, 1>>, <<3, 1>>, <<4, 1>>} }

Filler(f, cell) ==
  IF f = 1 /\ cell[2] = 1 /\ cell[1] < 3 THEN DOG1
  ELSE IF f = 2 /\ cell[1] < 2 THEN DOG1
  ELSE REGULAR_SYMBOLS[((cell[1] + 2 * cell[2]) % Len(REGULAR_SYMBOLS)) + 1]

Draw(k, wl, f) ==
  LET Sym(cell) == IF cell \in ScatterCells(k) THEN PAW
                   ELSE IF cell \in wl THEN HOUSE
                   ELSE Filler(f, cell)
  IN [r \in 1..REELS |-> [c \in 1..ROWS |-> Sym(<<r - 1, c - 1>>)]]

ScatterDraws == {Draw(k, {}, 0) : k \in 0..(REELS * ROWS)}
WildDraws == {Draw(0, wl, f) : wl \in WildSets, f \in {0, 1}} \cup {Draw(3, {<<2, 1>>}, 1)}
Draws == ScatterDraws \cup WildDraws

(* ---------------- operations ---------------- *)
(* the result is remembered by the first spin only *)
LastResultAfter_first_only(last, result) == IF last = None THEN <<result>> ELSE last

(* self.last_result = result *)
LastResultAfter(last, result) == <<result>>

InitWith(balances, bets, tables) ==
  /\ balance \in balances
  /\ bet_per_line \in bets
  /\ free_spins_left = 0
  /\ sticky_wilds = {}
  /\ last_result = None
  /\ op = "new"
  /\ ret = "None"
  /\ base_game = FALSE
  /\ new_frees = 0
  /\ forced = {}
  /\ returned = None
  /\ awarded = 0
  /\ free_done = 0
  /\ arg = <<>>
  /\ weights \in tables
  /\ rng = 0
  /\ own = 0
  /\ spinning = FALSE

Init == InitWith(StartBalances, StartBets, {SYMBOL_WEIGHTS})

(* spin(), the random draws of this call being draw *)
SpinWith(draw) ==
  IF ~can_spin
  THEN /\ op' = "spin"
       /\ ret' = "RuntimeError"
       /\ arg' = <<>>
       /\ UNCHANGED <<engine, locals, weights>>
  ELSE IF Len(weights) = 0 /\ sticky_wilds # Cells
  THEN (* random.choices raises on the empty table at the first cell drawn *)
       /\ balance' = BalanceAfterDebit(balance, free_spins_left = 0, total_bet)
       /\ op' = "spin"
       /\ ret' = "IndexError"
       /\ arg' = <<>>
       /\ UNCHANGED <<bet_per_line, free_spins_left, sticky_wilds, last_result,
                      locals, weights>>
  ELSE \E result \in {_evaluate_grid(GenerateGrid(draw, sticky_wilds), bet_per_line)} :
       LET bg == (free_spins_left = 0)
           debited == BalanceAfterDebit(balance, bg, total_bet)
           nf == _free_spins_from_scatters(result.scatter_count)
       IN /\ balance' = debited + result.total_win
          /\ sticky_wilds' = StickyAfter(result.grid, sticky_wilds, free_spins_left)
          /\ free_spins_left' = FreeSpinsAfter(free_spins_left, nf)
          /\ last_result' = LastResultAfter(last_result, result)
          /\ base_game' = bg
          /\ new_frees' = nf
          /\ forced' = {cell \in Cells : cell \in sticky_wilds}
          /\ returned' = <<result>>
          /\ awarded' = (IF bg THEN nf ELSE awarded + nf)
          /\ free_done' = (IF bg THEN 0 ELSE free_done + 1)
          /\ op' = "spin"
          /\ ret' = "SpinResult"
          /\ arg' = <<>>
          /\ UNCHANGED <<bet_per_line, weights>>

WithinBounds == balance <= MaxBalance /\ free_spins_left <= MaxFreeSpins

Spin == WithinBounds /\ (\E draw \in Draws : SpinWith(draw)) /\ UNCHANGED process

(* change_bet(delta) that also ends the bonus in progress *)
change_bet_ends_bonus(delta) ==
  /\ bet_per_line' = NewBet(bet_per_line, delta)
  /\ free_spins_left' = 0
  /\ op' = "change_bet"
  /\ ret' = "None"
  /\ arg' = <<delta>>
  /\ UNCHANGED <<balance, sticky_wilds, last_result, locals, weights>>

(* change_bet(delta) *)
change_bet(delta) ==
  /\ bet_per_line' = NewBet(bet_per_line, delta)
  /\ op' = "change_bet"
  /\ ret' = "None"
  /\ arg' = <<delta>>
  /\ UNCHANGED <<balance, free_spins_left, sticky_wilds, last_result, locals, weights>>

ChangeBet == (\E delta \in Deltas : change_bet(delta)) /\ UNCHANGED process

(* can_spin() called from outside *)
CanSpin ==
  /\ op' = "can_spin"
  /\ ret' = IF can_spin THEN "True" ELSE "False"
  /\ arg' = <<>>
  /\ UNCHANGED <<engine, locals, weights, process>>

Next == Spin \/ ChangeBet \/ CanSpin

Spec == Init /\ [][Next]_vars

(* ---------------- one spin over every content of payline 0 ---------------- *)
LineDraw(ln) ==
  LET Sym(cell) == IF cell[2] = 1 THEN ln[cell[1] + 1] ELSE Filler(0, cell)
  IN [r \in 1..REELS |-> [c \in 1..ROWS |-> Sym(<<r - 1, c - 1>>)]]

LineDraws == {LineDraw(ln) : ln \in [1..REELS -> SymbolSet]}

InitLine == InitWith({TotalBetOf(MaxStartBet)}, {1, MaxStartBet}, {SYMBOL_WEIGHTS})

SpinLine ==
  last_result = None /\ (\E draw \in LineDraws : SpinWith(draw)) /\ UNCHANGED process

SpecLine == InitLine /\ [][SpinLine]_vars

(* the same single spin from an engine at bet 1 *)
InitRun == InitWith({TotalBetOf(1)}, {1}, {SYMBOL_WEIGHTS})

SpecRun == InitRun /\ [][SpinLine]_vars

(* the same single spin over the contents of payline 0 that begin with a Wild *)
WildLineDraws ==
  {LineDraw(<<HOUSE, ln[1], ln[2], ln[3], ln[4]>>) : ln \in [1..(REELS - 1) -> SymbolSet]}

SpinWildLine ==
  last_result = None /\ (\E draw \in WildLineDraws : SpinWith(draw)) /\ UNCHANGED process

SpecWild == InitRun /\ [][SpinWildLine]_vars

(* ---------------- bet changes of every size between losing spins ---------------- *)
MaxStep == 3

BetDeltas == {-MaxDelta, MaxDelta} \cup (-MaxStep..MaxStep)
LosingDraws == {Draw(0, {}, 0)}

ChangeBetBy == (\E delta \in BetDeltas : change_bet(delta)) /\ UNCHANGED process

SpinLosing ==
  WithinBounds /\ (\E draw \in LosingDraws : SpinWith(draw)) /\ UNCHANGED process

NextBet == ChangeBetBy \/ SpinLosing

SpecBet == Init /\ [][NextBet]_vars

(* ---------------- engines built from a weight table that may be empty ---------------- *)
ConfigTables == {SYMBOL_WEIGHTS, <<>>}

InitConfig == InitWith(StartBalances, StartBets, ConfigTables)

SpecConfig == InitConfig /\ [][Next]_vars

(* ---------------- the module-level generator of random, seeded ---------------- *)
MaxRng == 40

(* the symbols weighted_choice returns at the successive positions of the    *)
(* generator for the seed in use: a fixed sequence, repeated                  *)
RngCycle == <<PAW, HOUSE, DOG1, DOG2, DOG3>>
Stream(p) == RngCycle[(p % Len(RngCycle)) + 1]

(* the cells drawn before cell by the loops of _generate_grid_with_sticky *)
DrawnBefore(cell, sticky) ==
  Cardinality({d \in Cells \ sticky : d[1] * ROWS + d[2] < cell[1] * ROWS + cell[2]})

(* the draws of one grid generation that starts with the generator at p *)
StreamDraw(p, sticky) ==
  [r \in 1..REELS |-> [c \in 1..ROWS |-> Stream(p + DrawnBefore(<<r - 1, c - 1>>, sticky))]]

DrawCount(sticky) == Cardinality(Cells \ sticky)

(* spin() reading the module-level generator *)
SpinSeeded ==
  /\ WithinBounds /\ rng <= MaxRng
  /\ SpinWith(StreamDraw(rng, sticky_wilds))
  /\ rng' = (IF can_spin THEN rng + DrawCount(sticky_wilds) ELSE rng)
  /\ own' = (IF can_spin THEN own + DrawCount(sticky_wilds) ELSE own)
  /\ UNCHANGED spinning

(* a draw by another user of random: random.choice of the reel animation *)
OtherDraw ==
  /\ rng <= MaxRng
  /\ rng' = rng + 1
  /\ UNCHANGED <<engine, op, ret, arg, locals, weights, own, spinning>>

NextRng == SpinSeeded \/ OtherDraw \/ ChangeBet

SpecRng == Init /\ [][NextRng]_vars

(* ---------------- run_gui: the event loop around one engine ---------------- *)
MaxGuiBet == 11

(* starting_balance: run_gui passes 1000; the exploration starts from the     *)
(* small balances play brings the engine down to                              *)
InitGui == InitWith(StartBalances, {1}, {SYMBOL_WEIGHTS})

GuiDraws == {Draw(0, {}, 0), Draw(3, {}, 0), Draw(0, {<<2, 1>>}, 1)}

(* an exception of engine.spin() leaves update_animation and ends run_gui *)
GuiRunning == ~(op = "spin" /\ ret # "SpinResult")

(* start_spin() without the test of the spinning flag *)
StartSpin_reentrant ==
  /\ GuiRunning
  /\ op' = "can_spin"
  /\ ret' = (IF can_spin THEN "True" ELSE "False")
  /\ arg' = <<>>
  /\ spinning' = can_spin
  /\ UNCHANGED <<engine, locals, weights, rng, own>>

(* start_spin(): SPACE or the SPIN button *)
StartSpin ==
  /\ GuiRunning
  /\ IF spinning
     THEN UNCHANGED <<op, ret, arg, spinning>>
     ELSE /\ op' = "can_spin"
          /\ ret' = (IF can_spin THEN "True" ELSE "False")
          /\ arg' = <<>>
          /\ spinning' = can_spin
  /\ UNCHANGED <<engine, locals, weights, rng, own>>

(* update_animation() in the frame where the last reel has stopped *)
FinishSpin ==
  /\ GuiRunning /\ spinning /\ WithinBounds
  /\ \E draw \in GuiDraws : SpinWith(draw)
  /\ spinning' = (IF can_spin THEN FALSE ELSE spinning)
  /\ UNCHANGED <<rng, own>>

(* the + and - keys and buttons *)
BetKey ==
  /\ GuiRunning
  /\ \E delta \in {-1, 1} : (delta < 0 \/ bet_per_line < MaxGuiBet) /\ change_bet(delta)
  /\ UNCHANGED process

(* the MAX BET button: engine.bet_per_line = 10 *)
MaxBetButton ==
  /\ GuiRunning
  /\ bet_per_line' = 10
  /\ op' = "set bet_per_line"
  /\ ret' = "None"
  /\ arg' = <<10>>
  /\ UNCHANGED <<balance, free_spins_left, sticky_wilds, last_result, locals, weights, process>>

NextGui == StartSpin \/ FinishSpin \/ BetKey \/ MaxBetButton

SpecGui == InitGui /\ [][NextGui]_vars

(* ---------------- bonus sessions of every length ---------------- *)
MaxAwarded == 15
MaxSessionBalance == 600

(* no Scatter, or the 3, 4 and 15 Scatters that award 8, 12 and 15 free spins *)
SessionDraws ==
  {Draw(0, {}, 0), Draw(3, {}, 0), Draw(4, {}, 0), Draw(REELS * ROWS, {}, 0)}

WithinSession ==
  IF free_spins_left > 0 THEN awarded <= MaxAwarded ELSE balance <= MaxSessionBalance

SpinSession ==
  WithinSession /\ (\E draw \in SessionDraws : SpinWith(draw)) /\ UNCHANGED process

InitSession == InitWith({TotalBetOf(MaxStartBet)}, {1}, {SYMBOL_WEIGHTS})

SpecSession == InitSession /\ [][SpinSession]_vars

(* ---------------- bonus sessions that fill the grid with sticky Wilds ---------------- *)
(* no Scatter, 15 Scatters, 13 Wilds beside 2 Scatters, and Dog1 on the first *)
(* two reels with a Wild in the middle of the third                           *)
StickyDraws ==
  {Draw(0, {}, 0), Draw(REELS * ROWS, {}, 0), Draw(2, Cells, 0), Draw(0, {<<2, 1>>}, 2)}

WithinSticky ==
  IF free_spins_left > 0 THEN awarded <= MaxAwarded ELSE balance <= MaxBalance

SpinSticky ==
  WithinSticky /\ (\E draw \in StickyDraws : SpinWith(draw)) /\ UNCHANGED process

InitSticky == InitWith({TotalBetOf(1)}, {1}, {SYMBOL_WEIGHTS})

SpecSticky == InitSticky /\ [][SpinSticky]_vars

(* ======================= properties ======================= *)
SpinReturned == op = "spin" /\ ret = "SpinResult"
SpinRaised == op = "spin" /\ ret = "RuntimeError"
SpinReturns == op' = "spin" /\ ret' = "SpinResult"
Result == last_result[1]

RECURSIVE SumPayouts(_, _)
SumPayouts(wins, k) == IF k > Len(wins) THEN 0 ELSE wins[k][5] + SumPayouts(wins, k + 1)

(* C1: a spin() called with balance < totalBet and no free spins left raises *)
(* and leaves balance, betPerLine, freeSpinsRemaining, stickyWilds and the   *)
(* last SpinResult as they were.                                             *)
C1_FailedSpinMutatesNothing ==
  [][(op' = "spin" /\ balance < total_bet /\ free_spins_left = 0)
       => (ret' = "RuntimeError" /\ UNCHANGED engine)]_vars

C1_Witness == SpinRaised /\ balance < total_bet /\ free_spins_left = 0 /\ last_result # None

(* C2: a successful spin debits totalBet exactly when it started with no free *)
(* spins left, and always credits totalPayout.                                *)
C2_DebitOnlyInBaseGame ==
  [][SpinReturns =>
       balance' = (IF free_spins_left = 0 THEN balance - total_bet ELSE balance)
                  + last_result'[1].total_win]_vars

C2_Witness == SpinReturned /\ ~base_game /\ Result.total_win > 0

(* C3: a spin that begins with no free spins left generates its grid from an  *)
(* empty sticky-wild set: no cell is forced to Wild by left-over positions.   *)
C3_BaseSpinHasNoForcedWild ==
  (SpinReturned /\ base_game) => forced = {}

(* C4: inside a bonus session a Wild of one spin's grid is a Wild of the next *)
(* spin's grid, whatever is drawn.                                            *)
C4_WildPersistsInSession ==
  [][(SpinReturns /\ last_result # None /\ ~base_game /\ free_spins_left > 0)
       => \A cell \in Cells :
            At(Result.grid, cell) = HOUSE => At(last_result'[1].grid, cell) = HOUSE]_vars

C4_Witness ==
  /\ SpinReturned /\ ~base_game
  /\ <<2, 1>> \in forced
  /\ At(Result.grid, <<2, 1>>) = HOUSE
  /\ Result.scatter_count = REELS * ROWS - 1

(* C5: totalPayout is scatterPayout plus the payoutCoins of all lineWins.     *)
C5_TotalIsScatterPlusLines ==
  last_result # None =>
    Result.total_win = Result.scatter_win + SumPayouts(Result.line_wins, 1)

C5_Witness ==
  last_result # None /\ Result.scatter_win > 0 /\ Len(Result.line_wins) > 0

(* C6: with F free spins at spin start and A awarded by the spin, the counter *)
(* becomes F + A - 1 if F + A > 0 and 0 otherwise; it is never negative.      *)
C6_FreeSpinCounter ==
  /\ [](free_spins_left >= 0)
  /\ [][SpinReturns =>
          free_spins_left' = (IF free_spins_left + new_frees' > 0
                              THEN free_spins_left + new_frees' - 1
                              ELSE 0)]_vars

C6_Witness == SpinReturned /\ ~base_game /\ new_frees > 0 /\ free_spins_left > new_frees

(* C7: the free spins awarded are 0 below 3 scatters, 8 for 3, 12 for 4 and   *)
(* 15 for 5 to 15, in base-game and in bonus spins alike.                     *)
AwardFor(k) == CASE k < 3 -> 0 [] k = 3 -> 8 [] k = 4 -> 12 [] OTHER -> 15

C7_FreeSpinsAwarded ==
  last_result # None => new_frees = AwardFor(Result.scatter_count)

C7_Witness ==
  SpinReturned /\ ~base_game /\ Result.scatter_count = REELS * ROWS /\ new_frees = 15

(* C8: scatterCount is the number of Scatter cells of the grid; scatterPayout *)
(* is 0 below 3 scatters and otherwise tier x betPerLine x 10 with tier 2 for *)
(* 3, 10 for 4 and 50 for 5 or more scatters.                                 *)
TierFor(k) == CASE k < 3 -> 0 [] k = 3 -> 2 [] k = 4 -> 10 [] OTHER -> 50

C8_ScatterCountAndPayout ==
  SpinReturned =>
    /\ Result.scatter_count = Cardinality({cell \in Cells : At(Result.grid, cell) = PAW})
    /\ Result.scatter_win = TierFor(Result.scatter_count) * bet_per_line * 10

C8_Witness == SpinReturned /\ Result.scatter_count > 5 /\ bet_per_line = 2

(* the coins lineWins pays for payline li *)
RECURSIVE PaidOnLine(_, _, _)
PaidOnLine(wins, li, k) ==
  IF k > Len(wins) THEN 0
  ELSE (IF wins[k][1] = li THEN wins[k][5] ELSE 0) + PaidOnLine(wins, li, k + 1)

AllWild(symbols) == \A i \in 1..REELS : symbols[i] = HOUSE

(* L_b: the longest prefix from reel 0 made of b and Wild only *)
RunLength(symbols, b) ==
  CHOOSE n \in 0..REELS :
    /\ \A i \in 1..n : symbols[i] \in {b, HOUSE}
    /\ (n = REELS \/ symbols[n + 1] \notin {b, HOUSE})

WildsInRun(symbols, b) ==
  Cardinality({i \in 1..RunLength(symbols, b) : symbols[i] = HOUSE})

CandidatePayouts(symbols, bet) ==
  {PAYTABLE[b][RunLength(symbols, b)] * bet * Pow2(WildsInRun(symbols, b)) :
     b \in {x \in RegularSet : RunLength(symbols, x) >= 3}}

MaxCandidate(symbols, bet) ==
  IF CandidatePayouts(symbols, bet) = {} THEN 0 ELSE SetMax(CandidatePayouts(symbols, bet))

(* C9: a payline that is not all Wild pays the maximum over the base symbols  *)
(* with a run of 3 or more of PAYTABLE[b][L_b] x betPerLine x 2^(Wilds in the *)
(* run), 0 if there is none, and never the sum of several candidates.         *)
C9_LinePaysMaxCandidate ==
  SpinReturned =>
    \A li \in 0..(LINES - 1) :
      ~AllWild(LineSymbols(Result.grid, li)) =>
        PaidOnLine(Result.line_wins, li, 1)
          = MaxCandidate(LineSymbols(Result.grid, li), bet_per_line)

C9_Witness ==
  /\ SpinReturned
  /\ LineSymbols(Result.grid, 0) = <<HOUSE, HOUSE, HOUSE, DOG1, COLLAR>>
  /\ PaidOnLine(Result.line_wins, 0, 1) = 240 * bet_per_line

(* C10: an all-Wild payline is entered in lineWins as D1 with run length 5,   *)
(* effective multiplier 3200 and 3200 x betPerLine coins, and no payline      *)
(* content pays more at the same bet.                                         *)
C10_AllWildLine ==
  SpinReturned =>
    /\ \A li \in 0..(LINES - 1) :
         AllWild(LineSymbols(Result.grid, li)) =>
           \E k \in 1..Len(Result.line_wins) :
             Result.line_wins[k] = <<li, DOG1, 5, 3200, 3200 * bet_per_line>>
    /\ \A k \in 1..Len(Result.line_wins) :
         Result.line_wins[k][5] <= 3200 * bet_per_line

C10_Witness ==
  /\ SpinReturned
  /\ AllWild(LineSymbols(Result.grid, 0))
  /\ PaidOnLine(Result.line_wins, 0, 1) = 3200 * bet_per_line

(* C13: can_spin() returns whether free spins are left or the balance covers  *)
(* the total bet and changes no field; a spin() returns a result when that    *)
(* condition holds at the call, also at balance 0 in a bonus, and raises when *)
(* it does not.                                                               *)
C13_CanSpinIsTheFundsCheck ==
  [][/\ op' = "can_spin" =>
          /\ ret' = (IF free_spins_left > 0 \/ balance >= total_bet THEN "True" ELSE "False")
          /\ UNCHANGED engine
     /\ op' = "spin" =>
          (ret' = "SpinResult" <=> (free_spins_left > 0 \/ balance >= total_bet))
     /\ (op = "can_spin" /\ op' = "spin") =>
          (ret' = "SpinResult" <=> ret = "True")]_vars

C13_Witness ==
  /\ SpinReturned /\ ~base_game
  /\ balance - Result.total_win < total_bet

(* C14: change_bet(delta) sets the bet to bet + delta limited to 1..100, for  *)
(* every delta; so whatever change_bet and spin calls are made the bet stays  *)
(* in 1..100 and total_bet is the bet times 10.                               *)
C14_ChangeBetClamps ==
  /\ [](bet_per_line >= 1 /\ bet_per_line <= 100 /\ total_bet = bet_per_line * 10)
  /\ [][op' = "change_bet" =>
          bet_per_line' = (IF bet_per_line + arg'[1] < 1 THEN 1
                           ELSE IF bet_per_line + arg'[1] > 100 THEN 100
                           ELSE bet_per_line + arg'[1])]_vars

C14_Witness ==
  /\ op = "change_bet" /\ arg = <<-1>>
  /\ bet_per_line = 57
  /\ last_result # None

(* C15: an engine is not built from a malformed configuration, here an empty  *)
(* weight table: construction fails; and no spin() ends in an error of the    *)
(* configuration.                                                             *)
C15_ConfigErrorsAtConstruction ==
  /\ Len(weights) = 0 => (op = "new" /\ ret # "None")
  /\ ~(op = "spin" /\ ret = "IndexError")

(* C16: with a given seed the grid of a spin is the one the generator gives   *)
(* after the draws this engine has made itself, whatever other users of       *)
(* random have drawn in the process.                                          *)
C16_GridsDependOnOwnDrawsOnly ==
  [][SpinReturns =>
       last_result'[1].grid
         = GenerateGrid(StreamDraw(own, sticky_wilds), sticky_wilds)]_vars

(* C17: in the loops of the presentation layer bet_per_line changes only in a *)
(* change_bet call, and balance, free_spins_left and sticky_wilds change only *)
(* in a spin() call.                                                          *)
C17_FieldsChangeOnlyInEngineCalls ==
  [][/\ bet_per_line' # bet_per_line => op' = "change_bet"
     /\ <<balance, free_spins_left, sticky_wilds>>'
          # <<balance, free_spins_left, sticky_wilds>> => op' = "spin"]_vars

(* C18: after a spin that began with free spins left sticky_wilds is exactly  *)
(* the set of Wild cells of that spin's grid and contains the set it was      *)
(* before the spin.                                                           *)
C18_StickyIsWildCellsInBonus ==
  [][(SpinReturns /\ free_spins_left > 0) =>
       /\ sticky_wilds' = {cell \in Cells : At(last_result'[1].grid, cell) = HOUSE}
       /\ sticky_wilds \subseteq sticky_wilds']_vars

C18_Witness ==
  /\ SpinReturned /\ ~base_game
  /\ forced # {}
  /\ sticky_wilds # forced
  /\ free_spins_left = 0

(* C19: after a spin that began with no free spins left sticky_wilds is       *)
(* empty, also when the grid has Wilds and its scatters award free spins.     *)
C19_NoStickyAfterBaseSpin ==
  [][(SpinReturns /\ free_spins_left = 0) => sticky_wilds' = {}]_vars

C19_Witness ==
  /\ SpinReturned /\ base_game
  /\ new_frees > 0
  /\ \E cell \in Cells : At(Result.grid, cell) = HOUSE
  /\ sticky_wilds = {}

(* the line content with one more Wild inserted at the left-aligned front *)
WildInFront(symbols) == <<HOUSE, symbols[1], symbols[2], symbols[3], symbols[4]>>

(* the lineWins entry of payline 0 in the last result, None if it has none *)
EntryOfLine0 ==
  IF \E k \in 1..Len(Result.line_wins) : Result.line_wins[k][1] = 0
  THEN Result.line_wins[CHOOSE k \in 1..Len(Result.line_wins) : Result.line_wins[k][1] = 0]
  ELSE None

(* the entry the evaluation reports for payline 0 once a Wild is put in front *)
EntryWithWildInFront ==
  EvaluateLine(0, WildInFront(LineSymbols(Result.grid, 0)), bet_per_line)[2]

(* C11: for a payline content [s0,s1,s2,s3,s4] with a line win, the content   *)
(* [Wild,s0,s1,s2,s3] has a line win whose effective multiplier is not less.  *)
C11_WildInFrontKeepsMultiplier ==
  (SpinReturned /\ EntryOfLine0 # None) =>
    /\ EntryWithWildInFront # None
    /\ EntryWithWildInFront[4] >= EntryOfLine0[4]

C11_Witness ==
  /\ SpinReturned
  /\ LineSymbols(Result.grid, 0) = <<DOG1, HOUSE, DOG1, DOG1, HOUSE>>
  /\ EntryOfLine0[4] = 400
  /\ EntryWithWildInFront[4] = 400

(* C12: for a payline content [s0,s1,s2,s3,s4] with a line win, the entry     *)
(* reported for [Wild,s0,s1,s2,s3] has a run length that is not less.         *)
C12_WildInFrontKeepsReportedLength ==
  (SpinReturned /\ EntryOfLine0 # None) =>
    /\ EntryWithWildInFront # None
    /\ EntryWithWildInFront[3] >= EntryOfLine0[3]

(* C12 amended: the run of the base symbol the entry names is not shorter in  *)
(* [Wild,s0,s1,s2,s3]; the entry reported there may name another base symbol  *)
(* that pays more with a shorter run.                                         *)
C12_WildInFrontKeepsRunOfBase ==
  (SpinReturned /\ EntryOfLine0 # None) =>
    /\ EntryWithWildInFront # None
    /\ _match_length_left(WildInFront(LineSymbols(Result.grid, 0)), EntryOfLine0[2])[1]
         >= EntryOfLine0[3]

C12_Witness ==
  /\ SpinReturned
  /\ LineSymbols(Result.grid, 0) = <<HOUSE, HOUSE, HOUSE, BONE, BONE>>
  /\ EntryOfLine0[2] = BONE /\ EntryOfLine0[3] = 5
  /\ EntryWithWildInFront[2] = DOG1 /\ EntryWithWildInFront[3] = 4
  /\ _match_length_left(WildInFront(LineSymbols(Result.grid, 0)), BONE)[1] = 5

(* C20: for a 5-symbol line and a regular base symbol _match_length_left      *)
(* returns the length of the longest prefix from reel 0 made of the base      *)
(* symbol and Wild, and the number of Wilds in that prefix; the line          *)
(* [D1, Wild, D1, D1, Collar] has for D1 length 4 and 1 Wild and is entered   *)
(* at bet 1 with effective multiplier 60 and payout 60.                       *)
C20_MatchLengthLeft ==
  SpinReturned =>
    LET symbols == LineSymbols(Result.grid, 0)
    IN /\ \A b \in RegularSet :
            _match_length_left(symbols, b) = <<RunLength(symbols, b), WildsInRun(symbols, b)>>
       /\ (symbols = <<DOG1, HOUSE, DOG1, DOG1, COLLAR>> /\ bet_per_line = 1) =>
            /\ _match_length_left(symbols, DOG1) = <<4, 1>>
            /\ EntryOfLine0 = <<0, DOG1, 4, 60, 60>>

C20_Witness ==
  /\ SpinReturned
  /\ bet_per_line = 1
  /\ LineSymbols(Result.grid, 0) = <<DOG1, HOUSE, DOG1, DOG1, COLLAR>>
  /\ _match_length_left(LineSymbols(Result.grid, 0), DOG1) = <<4, 1>>
  /\ PaidOnLine(Result.line_wins, 0, 1) = 60

(* a payline content with a run that pays: all Wild, or 3 or more for a base *)
Qualifies(symbols) ==
  AllWild(symbols) \/ \E b \in RegularSet : RunLength(symbols, b) >= 3

(* C21: line_wins has at most one entry per payline, in increasing order of   *)
(* the line index, which is in 0..9; an entry names one of the 7 regular      *)
(* symbols, a run of 3, 4 or 5, and coins > 0 equal to its effective          *)
(* multiplier times the bet per line; a payline without a qualifying run has  *)
(* no entry.                                                                  *)
C21_LineWinsWellFormed ==
  SpinReturned =>
    LET wins == Result.line_wins
    IN /\ \A k \in 1..Len(wins) :
            /\ wins[k][1] \in 0..9
            /\ wins[k][2] \in {"D1", "D2", "D3", "D4", "CL", "BW", "BN"}
            /\ wins[k][3] \in {3, 4, 5}
            /\ wins[k][5] > 0
            /\ wins[k][5] = wins[k][4] * bet_per_line
       /\ \A k \in 1..(Len(wins) - 1) : wins[k][1] < wins[k + 1][1]
       /\ \A li \in 0..(LINES - 1) :
            ~Qualifies(LineSymbols(Result.grid, li)) =>
              \A k \in 1..Len(wins) : wins[k][1] # li

C21_Witness ==
  /\ SpinReturned
  /\ Len(Result.line_wins) >= 3
  /\ Len(Result.line_wins) < LINES
  /\ \E k \in 1..Len(Result.line_wins) : Result.line_wins[k][3] = 3


(* C24: from a balance >= 0 and a bet in 1..100, the balance is >= 0 after    *)
(* every sequence of spin, change_bet and can_spin calls, bet increases       *)
(* between spins and bonus spins made with balance < total_bet included.      *)
C24_BalanceNeverNegative == balance >= 0

C24_Witness ==
  /\ SpinReturned /\ ~base_game
  /\ bet_per_line = 100
  /\ balance < total_bet
  /\ Result.total_win = 0


(* C23: last_result is None before the first spin() that returns; afterwards  *)
(* it is the result the most recent returning spin() gave back; a spin() that *)
(* raises, can_spin() and change_bet() leave it as it was.                    *)
C23_LastResultIsLatestReturned ==
  /\ [](last_result = returned)
  /\ [][IF SpinReturns
        THEN last_result' = returned' /\ last_result' # None
        ELSE UNCHANGED last_result]_vars

C23_Witness ==
  /\ op \in {"change_bet", "can_spin"} \/ SpinRaised
  /\ last_result # None
  /\ last_result = returned
  /\ free_done > 0


RECURSIVE SumEffective(_, _)
SumEffective(wins, k) == IF k > Len(wins) THEN 0 ELSE wins[k][4] + SumEffective(wins, k + 1)

(* C29: change_bet(delta) returns normally in every state, a bonus in         *)
(* progress included, and changes bet_per_line only: balance,                 *)
(* free_spins_left, sticky_wilds and last_result stay; the coins a free spin  *)
(* pays are computed from the bet per line in force at that spin.             *)
C29_ChangeBetTouchesBetOnly ==
  [][/\ op' = "change_bet" =>
          /\ ret' = "None"
          /\ bet_per_line' \in 1..100
          /\ UNCHANGED <<balance, free_spins_left, sticky_wilds, last_result>>
     /\ (SpinReturns /\ free_spins_left > 0) =>
          balance' - balance =
            (TierFor(last_result'[1].scatter_count) * LINES
               + SumEffective(last_result'[1].line_wins, 1)) * bet_per_line]_vars

C29_Witness ==
  /\ SpinReturned /\ ~base_game
  /\ bet_per_line = 100
  /\ Result.scatter_win > 0
  /\ Len(Result.line_wins) > 0


(* C25: in run_gui the engine.spin() made when the reel animation ends never  *)
(* fails: whatever +, - and MAX BET events arrive while the animation runs,   *)
(* the spin() of a request start_spin accepted returns a result.              *)
C25_SpinAtAnimationEndSucceeds ==
  [][(spinning /\ op' = "spin") => ret' = "SpinResult"]_vars

(* C26: in run_gui at most one spin is in flight: a SPIN request made while   *)
(* the animation runs is ignored (can_spin is not even asked), the flag is    *)
(* raised only by an accepted request, engine.spin() is called only for a     *)
(* request in flight, and the flag falls only with that call, so one accepted *)
(* request gives exactly one engine.spin() before the next can be accepted.   *)
C26_OneSpinInFlight ==
  [][/\ spinning => op' # "can_spin"
     /\ (~spinning /\ spinning') => (op' = "can_spin" /\ ret' = "True")
     /\ op' = "spin" => spinning
     /\ SpinReturns => ~spinning'
     /\ (spinning /\ ~spinning') => op' = "spin"]_vars

C26_Witness == SpinReturned /\ ~spinning /\ ~base_game /\ free_done > 1


(* C27: a bonus triggered from the base game by an award of N free spins, N   *)
(* in {8, 12, 15}, gives exactly N - 1 further spins without debit when no    *)
(* later spin retriggers: the triggering spin is debited and leaves           *)
(* free_spins_left = N - 1, each following spin is not debited and lowers the *)
(* counter by 1, and the spin made with the counter at 0 is debited again.    *)
C27_SessionOfNMinusOneSpins ==
  /\ [](awarded \in {8, 12, 15} => free_spins_left + free_done = awarded - 1)
  /\ [][SpinReturns =>
          LET win == last_result'[1].total_win
          IN IF free_spins_left = 0
             THEN /\ balance' = balance - total_bet + win
                  /\ free_done' = 0
                  /\ new_frees' > 0 => free_spins_left' = new_frees' - 1
             ELSE /\ balance' = balance + win
                  /\ free_done' = free_done + 1
                  /\ new_frees' = 0 => free_spins_left' = free_spins_left - 1]_vars

C27_Witness ==
  /\ SpinReturned
  /\ awarded = 15
  /\ free_done = 14
  /\ free_spins_left = 0


(* C28: in a bonus session the scatter_count of a spin is at most 15 minus    *)
(* the number of sticky Wild cells at its start; so once sticky_wilds holds   *)
(* 13 cells or more, no later spin of the session awards free spins, each     *)
(* lowers free_spins_left by exactly 1, the cells stay, and the session ends  *)
(* after exactly free_spins_left more spins.                                  *)
C28_StickyWildsCapScatters ==
  [][(SpinReturns /\ free_spins_left > 0) =>
       LET held == Cardinality(sticky_wilds)
       IN /\ last_result'[1].scatter_count <= REELS * ROWS - held
          /\ held >= 13 =>
               /\ new_frees' = 0
               /\ awarded' = awarded
               /\ free_spins_left' = free_spins_left - 1
               /\ free_spins_left' > 0 => Cardinality(sticky_wilds') >= 13]_vars

C28_Witness ==
  /\ SpinReturned /\ ~base_game
  /\ Cardinality(forced) >= 13
  /\ Result.scatter_count = REELS * ROWS - Cardinality(forced)
  /\ new_frees = 0
  /\ free_spins_left > 0


(* C22: Scatter takes no part in a line win and Wild does not stand for it: a *)
(* Scatter at position i of the payline ends every candidate's run at i, so a *)
(* payline with a Scatter among its first three positions has no entry, and   *)
(* an entry's run stops before the first Scatter; that Scatter still counts   *)
(* in scatter_count.                                                          *)
C22_ScatterEndsTheRun ==
  SpinReturned =>
    LET symbols == LineSymbols(Result.grid, 0)
    IN /\ (\E i \in 1..3 : symbols[i] = PAW) => EntryOfLine0 = None
       /\ \A i \in 1..REELS :
            (symbols[i] = PAW /\ EntryOfLine0 # None) => EntryOfLine0[3] < i
       /\ Result.scatter_count =
            Cardinality({cell \in Cells : At(Result.grid, cell) = PAW})
       /\ Result.scatter_count >= Cardinality({i \in 1..REELS : symbols[i] = PAW})

C22_Witness ==
  /\ SpinReturned
  /\ LineSymbols(Result.grid, 0) = <<HOUSE, HOUSE, PAW, HOUSE, HOUSE>>
  /\ EntryOfLine0 = None
  /\ Result.line_wins = <<>>
  /\ Result.scatter_count = 1


(* the order in which the candidates are tried *)
CandidateOrder == <<"D1", "D2", "D3", "D4", "CL", "BW", "BN">>
Rank(b) == CHOOSE n \in 1..Len(CandidateOrder) : CandidateOrder[n] = b

(* the base symbols whose candidate pays the maximum of the line *)
TiedAtMax(symbols, bet) ==
  {b \in RegularSet :
     /\ RunLength(symbols, b) >= 3
     /\ PAYTABLE[b][RunLength(symbols, b)] * bet * Pow2(WildsInRun(symbols, b))
          = MaxCandidate(symbols, bet)}

(* C30: when several base symbols give the same maximum payout on a payline,  *)
(* the entry names the one that comes first in the order D1, D2, D3, D4,      *)
(* Collar, Bowl, Bone, and pays the coins every tied candidate would pay.     *)
C30_FirstOfTiedCandidates ==
  (SpinReturned /\ EntryOfLine0 # None /\ ~AllWild(LineSymbols(Result.grid, 0))) =>
    LET tied == TiedAtMax(LineSymbols(Result.grid, 0), bet_per_line)
    IN /\ EntryOfLine0[2] \in tied
       /\ \A b \in tied : Rank(EntryOfLine0[2]) <= Rank(b)
       /\ EntryOfLine0[5] = MaxCandidate(LineSymbols(Result.grid, 0), bet_per_line)

C30_Witness ==
  /\ SpinReturned
  /\ LineSymbols(Result.grid, 0) = <<HOUSE, HOUSE, HOUSE, COLLAR, BONE>>
  /\ TiedAtMax(LineSymbols(Result.grid, 0), bet_per_line) = {DOG1, COLLAR}
  /\ EntryOfLine0 = <<0, DOG1, 3, 64, 64>>

====
